---------------------------- MODULE Spec2Model ----------------------------
(***************************************************************************)
(* Model of the DC/OS ssh installer engine:                                *)
(*   - dcos_installer/state.py   InstallStatus (the install state store)   *)
(*   - ssh/dispatcher.py         parse_ip, Node, Dispatcher._run_cmd       *)
(*   - dcos_installer/action_lib.py  the stage lists                       *)
(* Python values are modelled as follows: a str is a sequence of one-      *)
(* character strings, None is the string "None" (NoPort for a port), a     *)
(* dict is a function, an exception is the name of its class in `err`.     *)
(***************************************************************************)
EXTENDS Integers, Sequences, FiniteSets, TLC

VARIABLES self, file, alive, op, err, ret,      \* the install state store
          uuid_count,                           \* the uuids generated so far
          ssh_parallelism, dispatcher, workers, dispatch_err,    \* the dispatcher
          cancelled,                            \* the dispatch was cancelled
          inst,                                 \* installer processes started together
          call,                                 \* the last call of a function of the command path
          sh                                    \* the run of the postflight diagnostic script

svars == <<self, file, alive, op, err, ret, uuid_count>>
dvars == <<ssh_parallelism, dispatcher, workers, dispatch_err, cancelled>>
bvars == <<call, sh>>
vars == <<svars, dvars, inst, bvars>>

---------------------------------------------------------------------------
(* Bounds *)

NumHosts == 2
NumRunIds == 2
NumChains == 3
MaxParallelism == 2
ChainLen == 2
MaxAddrLen == 3
MaxStderrLen == 3
MaxResults == 3

---------------------------------------------------------------------------
(* Values *)

None == "None"
NoPort == -1

DigitStr == <<"1", "2", "3", "4", "5", "6", "7", "8", "9">>
RunIdStr == <<"r1", "r2", "r3", "r4", "r5", "r6", "r7", "r8", "r9">>
\* the run_id of an earlier run, found in a state file at start-up
OldRunId == "r0"

\* host identifiers handed over by the validated configuration: "1", "2:2", "3", "4:2", ...
HostName(i) == IF i % 2 = 0 THEN <<DigitStr[i], ":", "2">> ELSE <<DigitStr[i]>>
HostIds == {HostName(i) : i \in 1..NumHosts}
\* uuid.uuid4().hex: a value never returned before
uuid4(n) == RunIdStr[n + 1]

RECURSIVE Split(_, _)
Split(s, sep) ==
    IF s = <<>> THEN << <<>> >>
    ELSE LET rest == Split(Tail(s), sep)
         IN  IF Head(s) = sep THEN << <<>> >> \o rest
             ELSE << <<Head(s)>> \o Head(rest) >> \o Tail(rest)

IsDigit(c) == \E i \in 1..Len(DigitStr) : DigitStr[i] = c
DigitVal(c) == CHOOSE i \in 1..Len(DigitStr) : DigitStr[i] = c

RECURSIVE int(_)
int(s) ==
    IF s = <<>> \/ \E i \in 1..Len(s) : ~IsDigit(s[i]) THEN [err |-> "ValueError", val |-> 0]
    ELSE IF Len(s) = 1 THEN [err |-> "ok", val |-> DigitVal(s[1])]
    ELSE [err |-> "ok", val |-> 10 * int(SubSeq(s, 1, Len(s) - 1)).val + DigitVal(s[Len(s)])]

\* parse_ip that takes the first two parts of a string with more than one colon
parse_ip_lenient(ip) ==
    LET tmp == Split(ip, ":")
    IN  IF Len(tmp) >= 2
        THEN LET p == int(tmp[2])
             IN  [err |-> p.err, ip |-> tmp[1], port |-> p.val]
        ELSE [err |-> "ok", ip |-> ip, port |-> NoPort]

parse_ip(ip) ==
    LET tmp == Split(ip, ":")
    IN  IF Len(tmp) = 2
        THEN LET p == int(tmp[2])
             IN  [err |-> p.err, ip |-> tmp[1], port |-> p.val]
        ELSE IF Len(tmp) = 1
        THEN [err |-> "ok", ip |-> ip, port |-> NoPort]
        ELSE [err |-> "ValueError", ip |-> <<>>, port |-> NoPort]

\* tags values: a dict {'role': r} or a set literal {'role', r}
dict(k, v) == [kind |-> "dict", items |-> {<<k, v>>}]
set(a, b) == [kind |-> "set", items |-> {<<a>>, <<b>>}]
NoNode == [ip |-> <<>>, port |-> NoPort, tags |-> dict("role", None)]

Node(host, tags) ==
    IF tags.kind # "dict" THEN [err |-> "AssertionError", node |-> NoNode]
    ELSE LET h == parse_ip(host)
         IN  IF h.err # "ok" THEN [err |-> h.err, node |-> NoNode]
             ELSE [err |-> "ok", node |-> [ip |-> h.ip, port |-> h.port, tags |-> tags]]

---------------------------------------------------------------------------
(* dispatcher.py: CommandBuilder. A str is a sequence of tokens: the        *)
(* characters of an address, and one token for each literal piece of text. *)

\* str(n) for a port number
RECURSIVE str(_)
str(n) == IF n < 10 THEN <<DigitStr[n]>> ELSE str(n \div 10) \o <<DigitStr[n % 10]>>

\* the CommandBuilder the installer constructs
CommandBuilder ==
    [default_user |-> <<"u">>, default_port |-> 22, key_path |-> <<"genconf/ssh_key">>,
     extra_options |-> <<>>, remote_work_dir |-> <<"/opt/dcos_install_tmp">>]

\* a get_port that gives the default port for every node
get_port_default(cb, node) == cb.default_port

get_port(cb, node) == IF node.port = NoPort THEN cb.default_port ELSE node.port

\* tags[name] of a dict
HasKey(tags, name) == \E kv \in tags.items : kv[1] = name
GetItem(tags, name) == (CHOOSE kv \in tags.items : kv[1] = name)[2]

\* str.format(**tags) that puts the empty string for a field that tags does not have
RECURSIVE format_default(_, _)
format_default(s, tags) ==
    IF s = <<>> THEN [err |-> "ok", val |-> <<>>]
    ELSE IF Head(s) \in {"{", "}"} /\ Len(s) >= 2 /\ s[2] = Head(s)
    THEN LET r == format_default(SubSeq(s, 3, Len(s)), tags)
         IN  [err |-> r.err, val |-> <<Head(s)>> \o r.val]
    ELSE IF Head(s) = "{" /\ Len(s) >= 3 /\ s[3] = "}"
    THEN LET r == format_default(SubSeq(s, 4, Len(s)), tags)
         IN  [err |-> r.err,
              val |-> (IF HasKey(tags, s[2]) THEN <<GetItem(tags, s[2])>> ELSE <<>>) \o r.val]
    ELSE IF Head(s) \in {"{", "}"} THEN [err |-> "ValueError", val |-> <<>>]
    ELSE LET r == format_default(Tail(s), tags)
         IN  [err |-> r.err, val |-> <<Head(s)>> \o r.val]

\* str.format(**tags): "{{" and "}}" give a literal brace, "{name}" gives tags[name]
RECURSIVE format(_, _)
format(s, tags) ==
    IF s = <<>> THEN [err |-> "ok", val |-> <<>>]
    ELSE IF Head(s) \in {"{", "}"} /\ Len(s) >= 2 /\ s[2] = Head(s)
    THEN LET r == format(SubSeq(s, 3, Len(s)), tags)
         IN  [err |-> r.err, val |-> <<Head(s)>> \o r.val]
    ELSE IF Head(s) = "{" /\ Len(s) >= 3 /\ s[3] = "}"
    THEN IF ~HasKey(tags, s[2]) THEN [err |-> "KeyError", val |-> <<>>]
         ELSE LET r == format(SubSeq(s, 4, Len(s)), tags)
              IN  [err |-> r.err, val |-> <<GetItem(tags, s[2])>> \o r.val]
    ELSE IF Head(s) \in {"{", "}"} THEN [err |-> "ValueError", val |-> <<>>]
    ELSE LET r == format(Tail(s), tags)
         IN  [err |-> r.err, val |-> <<Head(s)>> \o r.val]

\* [arg.format(**node.tags) for arg in cmd]: the first exception ends it
RECURSIVE format_all(_, _)
format_all(cmd, tags) ==
    IF cmd = <<>> THEN [err |-> "ok", val |-> <<>>]
    ELSE LET a == format(Head(cmd), tags)
         IN  IF a.err # "ok" THEN [err |-> a.err, val |-> <<>>]
             ELSE LET r == format_all(Tail(cmd), tags)
                  IN  IF r.err # "ok" THEN r ELSE [err |-> "ok", val |-> <<a.val>> \o r.val]

\* the number of parameters of _make_ssh after self
make_ssh_params == 4

_make_ssh(cb, node, base_args, cmd, parameterized) ==
    LET c == IF parameterized THEN format_all(cmd, node.tags) ELSE [err |-> "ok", val |-> cmd]
    IN  IF c.err # "ok" THEN [err |-> c.err, argv |-> <<>>]
        ELSE [err |-> "ok",
              argv |-> << <<"ssh">> >> \o base_args
                          \o << cb.default_user \o <<"@">> \o node.ip >> \o c.val]

\* calls _make_ssh with node, base_args and cmd only
make_run_external(cb, node, base_args, cmd) ==
    IF Len(<<"node", "base_args", "cmd">>) # make_ssh_params
    THEN [err |-> "TypeError", argv |-> <<>>]
    ELSE _make_ssh(cb, node, base_args, cmd, FALSE)

make_copy(cb, node, base_args, filename) ==
    LET remote_path == cb.remote_work_dir \o <<"/">> \o filename
    IN  [err |-> "ok",
         argv |-> << <<"scp">>, <<"-tt">>, <<"-P">> \o str(get_port(cb, node)) >> \o base_args
                     \o << filename, cb.default_user \o <<"@">> \o node.ip \o <<":">> \o remote_path >>]

make_run(cb, node, base_args, filename, args, parameterized) ==
    _make_ssh(cb, node, base_args,
              << <<"bash">>, cb.remote_work_dir \o <<"/">> \o filename >> \o args, parameterized)

base_args(cb) ==
    << <<"-oConnectTimeout=10">>, <<"-oStrictHostKeyChecking=no">>,
       <<"-oUserKnownHostsFile=/dev/null">>, <<"-oBatchMode=yes">>,
       <<"-oPasswordAuthentication=no">>, <<"-i">>, cb.key_path >> \o cb.extra_options

\* arguments: filename for copy; filename, args, parameterized for run; cmd for run_external
get_cmd(cb, node, action, arguments) ==
    IF action = "copy" THEN make_copy(cb, node, base_args(cb), arguments.filename)
    ELSE IF action = "run"
    THEN make_run(cb, node, base_args(cb), arguments.filename, arguments.args,
                  arguments.parameterized)
    ELSE make_run_external(cb, node, base_args(cb), arguments.cmd)

_run_helper(cb, node, cmd) == get_cmd(cb, node, "run_external", [cmd |-> cmd])

\* the commands a generator or a list of calls gives: the first exception ends it
RECURSIVE collect(_)
collect(rs) ==
    IF rs = <<>> THEN [err |-> "ok", cmds |-> <<>>]
    ELSE IF Head(rs).err # "ok" THEN [err |-> Head(rs).err, cmds |-> <<>>]
    ELSE LET r == collect(Tail(rs))
         IN  [err |-> r.err, cmds |-> <<Head(rs).argv>> \o r.cmds]

yield_setup(cb, node) ==
    collect(<< _run_helper(cb, node, << <<"sudo">>, <<"mkdir">>, <<"-p">>, cb.remote_work_dir >>),
               _run_helper(cb, node, << <<"sudo">>, <<"chown">>, cb.default_user,
                                        cb.remote_work_dir >>) >>)

make_cleanup(cb, node) ==
    _run_helper(cb, node, << <<"sudo">>, <<"rm">>, <<"-rf">>, cb.remote_work_dir >>)

\* _run_cmd from the decoded stderr of the subprocess to the "stderr" of process_output
Join(parts, sep) ==
    LET RECURSIVE J(_)
        J(ps) == IF ps = <<>> THEN <<>>
                 ELSE IF Len(ps) = 1 THEN ps[1]
                 ELSE ps[1] \o <<sep>> \o J(Tail(ps))
    IN  J(parts)

WarningPrefix == <<"Warning: Permanently added">>
startswith(line, prefix) ==
    Len(line) >= Len(prefix) /\ SubSeq(line, 1, Len(prefix)) = prefix

captured_stderr(stderr) ==
    LET err_arry == Split(stderr, "\r")
        kept == SelectSeq(err_arry, LAMBDA line : ~startswith(line, WarningPrefix))
    IN  Split(Join(kept, "\n"), "\n")

---------------------------------------------------------------------------
(* action_lib.py: the stage lists *)

Stage(name, optional) == [name |-> name, optional |-> optional]

\* web_steps with prerequisites as a stage of its own
web_steps_with_prerequisites ==
    << Stage("prerequisites", TRUE), Stage("preflight", FALSE),
       Stage("install", FALSE), Stage("postflight", FALSE) >>

web_steps == << Stage("preflight", FALSE), Stage("install", FALSE), Stage("postflight", FALSE) >>

cli_steps == << Stage("prerequisites", TRUE), Stage("preflight", FALSE),
                Stage("install", FALSE), Stage("postflight", FALSE) >>

\* the chain a stage builder appends to: the actions in the order of the calls. Of a
\* copy the filename counts; of a run the filename, the args and parameterized; a run
\* with external_command is the argv filename, args as it is.
ChainEntry(action, filename, args, parameterized) ==
    [action |-> action, filename |-> filename, args |-> args, parameterized |-> parameterized]

chain_copy(chain, filename) == Append(chain, ChainEntry("copy", filename, <<>>, FALSE))

chain_copy_and_run(chain, filename, args, parameterized) ==
    Append(chain_copy(chain, filename), ChainEntry("run", filename, args, parameterized))

chain_run_parameterized(chain, filename, args) ==
    Append(chain, ChainEntry("run", filename, args, TRUE))

chain_run_external(chain, filename, args) ==
    Append(chain, ChainEntry("run_external", filename, args, FALSE))

\* the argument '{{role}}' of the stage builders
RoleArg == <<"{", "{", "role", "}", "}">>
InstallScript == <<"genconf/serve/dcos_install.sh">>

add_prerequisites(chain) ==
    [err |-> "ok", chain |-> chain_copy_and_run(chain, <<"preflight_script">>, <<>>, FALSE)]

add_preflight(chain) ==
    [err |-> "ok",
     chain |-> chain_copy_and_run(chain, InstallScript, <<RoleArg, <<"--preflight-only">> >>, TRUE)]

\* os.getenv['BOOTSTRAP_ID']: os.getenv is a function, and a function has no items
getenv_item(name) == [err |-> "TypeError", val |-> <<>>]

RECURSIVE copy_packages(_, _)
copy_packages(chain, packages) ==
    IF packages = <<>> THEN chain
    ELSE copy_packages(chain_copy(chain, <<"packages/">> \o Head(packages) \o <<".tar.xz">>),
                       Tail(packages))

\* packages: the keys of genconf/cluster_packages.json
add_install(chain, packages) ==
    LET id == getenv_item(<<"BOOTSTRAP_ID">>)
    IN  IF id.err # "ok" THEN [err |-> id.err, chain |-> chain]
        ELSE LET c1 == chain_copy(chain, <<"genconf/serve/bootstrap/">> \o id.val
                                             \o <<".bootstrap.tar.xz">>)
                 c2 == chain_copy(c1, InstallScript)
                 c3 == copy_packages(c2, packages)
                 c4 == chain_copy_and_run(c3, InstallScript, <<RoleArg>>, TRUE)
             IN  [err |-> "ok", chain |-> chain_run_parameterized(c4, InstallScript, <<RoleArg>>)]

add_postflight(chain) ==
    [err |-> "ok",
     chain |-> chain_run_external(chain_copy_and_run(chain, <<"dcos_diag.sh">>, <<>>, FALSE),
                                  <<"sudo">>, << <<"rm">>, <<"-f">>, <<"/opt/dcos-prereqs.installed">> >>)]

\* the number of parameters of add_prerequisites and of add_preflight: chain, options
stage_builder_params == 2

\* calls add_prerequisites and add_preflight with the chain only
add_preflight_web(chain, offline) ==
    IF Len(<<"chain">>) # stage_builder_params THEN [err |-> "TypeError", chain |-> chain]
    ELSE LET p == IF offline THEN [err |-> "ok", chain |-> chain] ELSE add_prerequisites(chain)
         IN  IF p.err # "ok" THEN p ELSE add_preflight(p.chain)

\* Stage.build_chain of the stage `name` of cli_steps
build_chain(name, chain, packages) ==
    IF name = "prerequisites" THEN add_prerequisites(chain)
    ELSE IF name = "preflight" THEN add_preflight(chain)
    ELSE IF name = "install" THEN add_install(chain, packages)
    ELSE add_postflight(chain)

\* the commands of the actions of a chain for one node
chain_cmds(cb, node, chain) ==
    collect([i \in 1..Len(chain) |->
               get_cmd(cb, node, chain[i].action,
                       IF chain[i].action = "copy" THEN [filename |-> chain[i].filename]
                       ELSE IF chain[i].action = "run"
                       THEN [filename |-> chain[i].filename, args |-> chain[i].args,
                             parameterized |-> chain[i].parameterized]
                       ELSE [cmd |-> <<chain[i].filename>> \o chain[i].args])])

\* the commands run on a host for a chain: the setup of the work directory, the
\* actions of the chain, the cleanup
host_chain(cb, node, chain) ==
    LET s == yield_setup(cb, node)
        a == chain_cmds(cb, node, chain)
        c == make_cleanup(cb, node)
    IN  IF s.err # "ok" THEN [err |-> s.err, cmds |-> <<>>]
        ELSE IF a.err # "ok" THEN [err |-> a.err, cmds |-> <<>>]
        ELSE IF c.err # "ok" THEN [err |-> c.err, cmds |-> <<>>]
        ELSE [err |-> "ok", cmds |-> s.cmds \o a.cmds \o <<c.argv>>]

\* dcos_diag_script: T=900
DiagCeiling == 900

\* no script is running / no function was called
NoScript == [pc |-> "none", T |-> 0, status |-> 0, probes |-> 0, succeeded |-> FALSE,
             RETCODE |-> 0]
NoCall == [name |-> "none"]

\* dcos_diag_script at its first command. status is the exit status the until loop
\* ends with: that of the last command of its body, zero while the body has not run
dcos_diag_script ==
    [pc |-> "until", T |-> DiagCeiling, status |-> 0, probes |-> 0, succeeded |-> FALSE,
     RETCODE |-> 0]

\* `until OUT=$(sudo /opt/mesosphere/bin/./3dt -diag) || [[ T -eq 0 ]]`: the probe, and
\* after a failed probe the test of T
until_test(s, healthy) ==
    [s EXCEPT !.probes = @ + 1,
              !.succeeded = healthy,
              !.pc = IF healthy \/ s.T = 0 THEN "done" ELSE "do"]

\* a loop body that sleeps and leaves T as it is
until_body_no_countdown(s) == [s EXCEPT !.status = 0, !.pc = "until"]

\* `sleep 1; let T=T-1`: let returns 1 when the value of its expression is 0
until_body(s) ==
    [s EXCEPT !.T = @ - 1, !.status = IF s.T - 1 = 0 THEN 1 ELSE 0, !.pc = "until"]

\* `RETCODE=$?`, the echo of OUT, `exit $RETCODE`
diag_exit(s) == [s EXCEPT !.RETCODE = s.status, !.pc = "exit"]

---------------------------------------------------------------------------
(* state.py *)

\* a class with assignable fields in the place of the namedtuple
HostState_assignable == TRUE

\* a namedtuple: its fields cannot be assigned
HostState_mutable == FALSE

HostState(stage, step, skip, tags, node) ==
    [stage |-> stage, step |-> step, skip |-> skip, tags |-> tags, node |-> node]

run_mode_dict == [web |-> web_steps, cli |-> cli_steps]
RunModes == DOMAIN run_mode_dict

pre_marker == "_pre"
post_marker == "_post"

StageNames(mode) == {run_mode_dict[mode][i].name : i \in 1..Len(run_mode_dict[mode])}
AllStages == {pre_marker, post_marker} \cup UNION {StageNames(m) : m \in RunModes}

Put(f, k, v) == [x \in DOMAIN f \cup {k} |-> IF x = k THEN v ELSE f[x]]
EmptyDict == [x \in {} |-> None]

\* iteration order of a dict: some fixed order of its keys
RECURSIVE keys(_)
keys(d) ==
    IF DOMAIN d = {} THEN <<>>
    ELSE LET k == CHOOSE x \in DOMAIN d : TRUE
         IN  <<k>> \o keys([x \in DOMAIN d \ {k} |-> d[x]])

\* the persisted file: absent, or a JSON document
EmptyJson == [run_mode |-> None, current_stage |-> None, run_id |-> None, hosts |-> <<>>]
NoFile == [exists |-> FALSE, json |-> EmptyJson]
exists(f) == f.exists

\* pkgpanda.util.write_json: JSON has no encoding for a set
serializable(json_state) ==
    \A i \in 1..Len(json_state.hosts) : json_state.hosts[i].tags.kind = "dict"

write_json(f, json_state) ==
    IF serializable(json_state)
    THEN [err |-> "ok", file |-> [exists |-> TRUE, json |-> json_state]]
    ELSE [err |-> "TypeError", file |-> f]

\* the files a crash of the process within write_json can leave: the document goes to
\* a new file that is then renamed to f, so f is the old file or the new one
write_json_crash(f, json_state) ==
    IF serializable(json_state)
    THEN {f, [exists |-> TRUE, json |-> json_state]}
    ELSE {f}

load_json(f) == f.json

\* InstallStatus.__init__ before the load
NewStatus(run_mode) ==
    [run_mode |-> run_mode, hosts |-> EmptyDict, current_stage |-> None, run_id |-> None]

\* the json_state that checkpoint builds
checkpoint_json(s) ==
    LET ids == keys(s.hosts)
    IN  [run_mode |-> s.run_mode,
         current_stage |-> s.current_stage,
         run_id |-> s.run_id,
         hosts |-> [i \in 1..Len(ids) |->
                      [id |-> ids[i],
                       stage |-> s.hosts[ids[i]].stage,
                       step |-> s.hosts[ids[i]].step,
                       skip |-> s.hosts[ids[i]].skip,
                       tags |-> s.hosts[ids[i]].tags]]]

checkpoint(s, f) ==
    LET w == write_json(f, checkpoint_json(s))
    IN  [self |-> s, file |-> w.file, err |-> w.err]

\* checkpoint that opens the state file for writing itself: a crash can leave it empty
checkpoint_crash_in_place(s, f) ==
    write_json_crash(f, checkpoint_json(s)) \cup {[exists |-> TRUE, json |-> EmptyJson]}

\* the files a crash of the process within checkpoint can leave
checkpoint_crash(s, f) == write_json_crash(f, checkpoint_json(s))

\* the loop of add_all / of _load: stops at the first exception
RECURSIVE add_all(_, _, _)
add_all(st, host_list, tags) ==
    IF st.err # "ok" \/ host_list = <<>> THEN st
    ELSE LET host_id == Head(host_list)
         IN  IF host_id \in DOMAIN st.hosts
             THEN [st EXCEPT !.err = "AssertionError"]
             ELSE LET n == Node(host_id, tags)
                  IN  IF n.err # "ok" THEN [st EXCEPT !.err = n.err]
                      ELSE add_all([st EXCEPT !.hosts = Put(st.hosts, host_id,
                                       HostState(pre_marker, pre_marker, FALSE, tags, n.node))],
                                   Tail(host_list), tags)

\* initialize without the test for an existing state file
initialize_unguarded(s, f, master_list, agent_list, agent_public_list, uuid) ==
    LET a1 == add_all([hosts |-> s.hosts, err |-> "ok"], master_list, dict("role", "master"))
        a2 == add_all(a1, agent_list, dict("role", "slave"))
        a3 == add_all(a2, agent_public_list, set("role", "slave_public"))
    IN  IF a3.err # "ok"
        THEN [self |-> [s EXCEPT !.hosts = a3.hosts], file |-> f, err |-> a3.err]
        ELSE checkpoint([s EXCEPT !.hosts = a3.hosts,
                                  !.current_stage = pre_marker,
                                  !.run_id = uuid], f)

initialize(s, f, master_list, agent_list, agent_public_list, uuid) ==
    IF exists(f) THEN [self |-> s, file |-> f, err |-> "Exception"]
    ELSE LET a1 == add_all([hosts |-> s.hosts, err |-> "ok"], master_list, dict("role", "master"))
             a2 == add_all(a1, agent_list, dict("role", "slave"))
             a3 == add_all(a2, agent_public_list, set("role", "slave_public"))
         IN  IF a3.err # "ok"
             THEN [self |-> [s EXCEPT !.hosts = a3.hosts], file |-> f, err |-> a3.err]
             ELSE checkpoint([s EXCEPT !.hosts = a3.hosts,
                                       !.current_stage = pre_marker,
                                       !.run_id = uuid], f)

\* assignment to a field of the HostState of host_id
setattr(s, host_id, field, value) ==
    IF HostState_mutable
    THEN [self |-> [s EXCEPT !.hosts[host_id][field] = value], err |-> "ok"]
    ELSE [self |-> s, err |-> "AttributeError"]

update(s, host_id, stage, step) ==
    IF host_id \notin DOMAIN s.hosts THEN [self |-> s, err |-> "AssertionError"]
    ELSE LET u1 == setattr(s, host_id, "stage", stage)
         IN  IF u1.err # "ok" THEN u1
             ELSE setattr(u1.self, host_id, "step", step)

\* mark_skip that sets the flag without comparing the host's stage with current_stage
mark_skip_unchecked(s, host_id, skip_state) ==
    IF host_id \notin DOMAIN s.hosts THEN [self |-> s, err |-> "AssertionError"]
    ELSE IF s.hosts[host_id].skip = skip_state THEN [self |-> s, err |-> "ok"]
    ELSE [self |-> [s EXCEPT !.hosts[host_id].skip = skip_state], err |-> "ok"]

\* mark_skip that compares the host's stage with current_stage before it compares the flag
mark_skip_stage_first(s, host_id, skip_state) ==
    IF host_id \notin DOMAIN s.hosts THEN [self |-> s, err |-> "AssertionError"]
    ELSE LET host == s.hosts[host_id]
         IN  IF host.stage # s.current_stage THEN [self |-> s, err |-> "Exception"]
             ELSE IF host.skip = skip_state THEN [self |-> s, err |-> "ok"]
             ELSE setattr(s, host_id, "skip", skip_state)

mark_skip(s, host_id, skip_state) ==
    IF host_id \notin DOMAIN s.hosts THEN [self |-> s, err |-> "AssertionError"]
    ELSE LET host == s.hosts[host_id]
         IN  IF host.skip = skip_state THEN [self |-> s, err |-> "ok"]
             ELSE IF host.stage # s.current_stage THEN [self |-> s, err |-> "Exception"]
             ELSE setattr(s, host_id, "skip", skip_state)

\* `if state.skip: pass` falls through to the append
RECURSIVE active_nodes(_, _)
active_nodes(d, ids) ==
    IF ids = <<>> THEN <<>>
    ELSE LET state == d[Head(ids)]
         IN  IF state.skip
             THEN <<state.node>> \o active_nodes(d, Tail(ids))
             ELSE <<state.node>> \o active_nodes(d, Tail(ids))

get_active_nodes(s) == active_nodes(s.hosts, keys(s.hosts))

RECURSIVE load_hosts(_, _)
load_hosts(st, json_hosts) ==
    IF st.err # "ok" \/ json_hosts = <<>> THEN st
    ELSE LET host == Head(json_hosts)
             n == Node(host.id, host.tags)
         IN  IF n.err # "ok" THEN [st EXCEPT !.err = n.err]
             ELSE load_hosts([st EXCEPT !.hosts = Put(st.hosts, host.id,
                                 HostState(host.stage, host.step, host.skip, host.tags, n.node))],
                             Tail(json_hosts))

\* _load that does not compare the run_id of the file with its own
_load_any_run(s, f) ==
    LET json_state == load_json(f)
    IN  IF json_state.run_mode # s.run_mode THEN [self |-> s, err |-> "Exception"]
        ELSE LET s1 == [s EXCEPT !.run_id = json_state.run_id,
                                 !.current_stage = json_state.current_stage]
                 l == load_hosts([hosts |-> s1.hosts, err |-> "ok"], json_state.hosts)
             IN  [self |-> [s1 EXCEPT !.hosts = l.hosts], err |-> l.err]

\* _load that does not compare the run mode of the file with its own
_load_any_mode(s, f) ==
    LET json_state == load_json(f)
    IN  IF s.run_id # None /\ s.run_id # json_state.run_id
        THEN [self |-> s, err |-> "Exception"]
        ELSE LET s1 == [s EXCEPT !.run_id = json_state.run_id,
                                 !.current_stage = json_state.current_stage]
                 l == load_hosts([hosts |-> s1.hosts, err |-> "ok"], json_state.hosts)
             IN  [self |-> [s1 EXCEPT !.hosts = l.hosts], err |-> l.err]

_load(s, f) ==
    LET json_state == load_json(f)
    IN  IF json_state.run_mode # s.run_mode THEN [self |-> s, err |-> "Exception"]
        ELSE IF s.run_id # None /\ s.run_id # json_state.run_id
        THEN [self |-> s, err |-> "Exception"]
        ELSE LET s1 == [s EXCEPT !.run_id = json_state.run_id,
                                 !.current_stage = json_state.current_stage]
                 l == load_hosts([hosts |-> s1.hosts, err |-> "ok"], json_state.hosts)
             IN  [self |-> [s1 EXCEPT !.hosts = l.hosts], err |-> l.err]

__init__(f, run_mode) ==
    IF exists(f) THEN _load(NewStatus(run_mode), f)
    ELSE [self |-> NewStatus(run_mode), err |-> "ok"]
---------------------------------------------------------------------------
(* dispatcher.py: Dispatcher *)

ProcessTimeout == 120
NoReturnCode == -1

\* __init__ with the two assignments crossed
Dispatcher_init_crossed(parallelism, process_timeout) ==
    [_paralleism |-> process_timeout, _process_timeout |-> parallelism]

Dispatcher_init(parallelism, process_timeout) ==
    [_paralleism |-> parallelism, _process_timeout |-> process_timeout]

hasattr(obj, name) == name \in DOMAIN obj

\* what the subprocess of a command does: exit with 0, exit with 1, or outlive the timeout
Fates == {"exit0", "exit1", "hang"}
\* create_subprocess_exec starts such a subprocess or raises
LaunchOutcomes == Fates \cup {"OSError"}

\* the worker of one host: the chain loop with the frame of the _run_cmd it is in
PendingWorker ==
    [status |-> "pending", idx |-> 0, pc |-> "idle", proc |-> "none", fate |-> "none",
     results |-> <<>>, exc |-> None, log |-> <<>>]

\* _run_cmd from one suspension point to the next (or to its return / its exception):
\*   pc = "launch": resumed by create_subprocess_exec, up to wait_for
\*   pc = "wait":   resumed by wait_for, up to the return
\* Of the result handed to the future, the exit code and the action are kept.
_run_cmd(d, w, outcome) ==
    IF w.pc = "launch"
    THEN IF outcome = "OSError"
         THEN [w EXCEPT !.pc = "raised", !.exc = "OSError"]
         ELSE LET w1 == [w EXCEPT !.proc = "running", !.fate = outcome]
              IN  IF ~hasattr(d, "process_timeout")
                  THEN [w1 EXCEPT !.pc = "raised", !.exc = "AttributeError"]
                  ELSE [w1 EXCEPT !.pc = "wait"]
    ELSE IF w.pc = "wait"
    THEN LET timeout == w.fate = "hang"
             returncode == IF timeout THEN NoReturnCode
                           ELSE IF w.fate = "exit0" THEN 0 ELSE 1
         IN  [w EXCEPT !.proc = IF timeout THEN "terminated" ELSE "exited",
                       !.results = Append(@, [idx |-> w.idx, returncode |-> returncode]),
                       !.pc = "returned"]
    ELSE w

\* Dispatcher.dispatch
dispatch == "NotImplementedError"

\* the chain loop of a worker, continued after _run_cmd returned or raised: the next
\* action is started after a result with exit code 0, the chain ends otherwise
dispatch_chain(w) ==
    IF w.pc = "raised" THEN [w EXCEPT !.status = "done"]
    ELSE IF w.pc = "returned"
    THEN IF w.results[Len(w.results)].returncode = 0 /\ w.idx < ChainLen
         THEN [w EXCEPT !.idx = w.idx + 1, !.pc = "launch", !.proc = "none", !.fate = "none",
                        !.log = Append(@, w.idx + 1)]
         ELSE [w EXCEPT !.status = "done"]
    ELSE w

\* the chain loop once the dispatch is cancelled: no next action is started
dispatch_chain_cancelled(w) ==
    IF w.pc = "returned" /\ w.results[Len(w.results)].returncode = 0 /\ w.idx < ChainLen
    THEN [w EXCEPT !.status = "cancelled"]
    ELSE dispatch_chain(w)

Running == {h \in DOMAIN workers : workers[h].status = "running"}

---------------------------------------------------------------------------
(* The install state store as a state machine: one installer process at a  *)
(* time works on the state file; the file found at start-up is an input.   *)

NoStatus == NewStatus(None)

NoOp ==
    [name |-> "none", run_mode |-> None, host_id |-> <<>>, stage |-> None, step |-> None,
     skip_state |-> FALSE, master_list |-> <<>>, agent_list |-> <<>>, agent_public_list |-> <<>>]

Call(name) == [NoOp EXCEPT !.name = name]

\* the hosts of S in configuration order
RECURSIVE ListOf(_, _)
ListOf(S, i) ==
    IF i > NumHosts THEN <<>>
    ELSE (IF HostName(i) \in S THEN <<HostName(i)>> ELSE <<>>) \o ListOf(S, i + 1)

Roles == {"none", "master", "agent", "public"}
StageArgs == {pre_marker, "preflight", post_marker}
StepArgs == {"step1"}
FileStages == {pre_marker, "preflight"}
\* recorded positions of a host in such a file
FileHostStates ==
    {[stage |-> pre_marker, skip |-> FALSE], [stage |-> pre_marker, skip |-> TRUE],
     [stage |-> "preflight", skip |-> FALSE]}

\* a state file left by an earlier installer process
InitJsons ==
    UNION { { [run_mode |-> m, current_stage |-> cs, run_id |-> r,
               hosts |-> LET ids == ListOf(H, 1)
                         IN  [i \in 1..Len(ids) |->
                                [id |-> ids[i], stage |-> g[ids[i]].stage, step |-> pre_marker,
                                 skip |-> g[ids[i]].skip, tags |-> dict("role", "master")]]]
              : g \in [H -> FileHostStates] }
            : m \in RunModes, cs \in FileStages, r \in {OldRunId},
              H \in {{HostName(i) : i \in 1..k} : k \in 0..NumHosts} }

InitFiles == {NoFile} \cup {[exists |-> TRUE, json |-> j] : j \in InitJsons}

StoreInit ==
    /\ self = NoStatus
    /\ file \in InitFiles
    /\ alive = FALSE
    /\ op = NoOp
    /\ err = "ok"
    /\ ret = <<>>
    /\ uuid_count = 0
    /\ ssh_parallelism = 1
    /\ dispatcher = Dispatcher_init(ssh_parallelism, ProcessTimeout)
    /\ workers = <<>>
    /\ dispatch_err = None
    /\ cancelled = FALSE
    /\ inst = <<>>
    /\ call = NoCall
    /\ sh = NoScript

\* a new installer process constructs its InstallStatus
Construct(run_mode) ==
    /\ ~alive
    /\ LET r == __init__(file, run_mode)
       IN  /\ alive' = (r.err = "ok")
           /\ self' = IF r.err = "ok" THEN r.self ELSE NoStatus
           /\ err' = r.err
    /\ op' = [Call("__init__") EXCEPT !.run_mode = run_mode]
    /\ ret' = <<>>
    /\ UNCHANGED <<file, uuid_count, dvars, inst, bvars>>

\* the installer process ends; the state file stays
Exit ==
    /\ alive
    /\ alive' = FALSE
    /\ self' = NoStatus
    /\ op' = Call("exit")
    /\ err' = "ok"
    /\ ret' = <<>>
    /\ UNCHANGED <<file, uuid_count, dvars, inst, bvars>>

\* the lists come from the configuration: each host under its role, and after the
\* agents the hosts of `extra`, which the configuration may name a second time
Initialize(role, extra) ==
    /\ alive
    /\ uuid_count < NumRunIds
    /\ LET master_list == ListOf({h \in HostIds : role[h] = "master"}, 1)
           agent_list == ListOf({h \in HostIds : role[h] = "agent"}, 1) \o extra
           agent_public_list == ListOf({h \in HostIds : role[h] = "public"}, 1)
           r == initialize(self, file, master_list, agent_list, agent_public_list,
                           uuid4(uuid_count))
       IN  /\ self' = r.self
           /\ uuid_count' = IF r.self.run_id = uuid4(uuid_count) THEN uuid_count + 1
                                                                  ELSE uuid_count
           /\ file' = r.file
           /\ err' = r.err
           /\ op' = [Call("initialize") EXCEPT !.master_list = master_list,
                                               !.agent_list = agent_list,
                                               !.agent_public_list = agent_public_list]
    /\ ret' = <<>>
    /\ UNCHANGED <<alive, dvars, inst, bvars>>

Update(host_id, stage, step) ==
    /\ alive
    /\ LET r == update(self, host_id, stage, step)
       IN  /\ self' = r.self
           /\ err' = r.err
    /\ op' = [Call("update") EXCEPT !.host_id = host_id, !.stage = stage, !.step = step]
    /\ ret' = <<>>
    /\ UNCHANGED <<file, alive, uuid_count, dvars, inst, bvars>>

MarkSkip(host_id, skip_state) ==
    /\ alive
    /\ LET r == mark_skip(self, host_id, skip_state)
       IN  /\ self' = r.self
           /\ err' = r.err
    /\ op' = [Call("mark_skip") EXCEPT !.host_id = host_id, !.skip_state = skip_state]
    /\ ret' = <<>>
    /\ UNCHANGED <<file, alive, uuid_count, dvars, inst, bvars>>

GetActiveNodes ==
    /\ alive
    /\ ret' = get_active_nodes(self)
    /\ err' = "ok"
    /\ op' = Call("get_active_nodes")
    /\ UNCHANGED <<self, file, alive, uuid_count, dvars, inst, bvars>>

Checkpoint ==
    /\ alive
    /\ LET r == checkpoint(self, file)
       IN  /\ file' = r.file
           /\ err' = r.err
    /\ op' = Call("checkpoint")
    /\ ret' = <<>>
    /\ UNCHANGED <<self, alive, uuid_count, dvars, inst, bvars>>

StoreNext ==
    \/ \E run_mode \in RunModes : Construct(run_mode)
    \/ Exit
    \/ \E role \in [HostIds -> Roles] : Initialize(role, <<>>)
    \/ \E host_id \in HostIds, stage \in StageArgs, step \in StepArgs :
          Update(host_id, stage, step)
    \/ \E host_id \in HostIds, skip_state \in BOOLEAN : MarkSkip(host_id, skip_state)
    \/ GetActiveNodes
    \/ Checkpoint

Spec == StoreInit /\ [][StoreNext]_vars
---------------------------------------------------------------------------
(* The install state store with its environment: the configuration may name *)
(* a host twice, the process may crash within checkpoint, another installer *)
(* may replace the state file, and the record may be loaded again.          *)

\* the run_id of another installer instance
ForeignRunId == "rf"

\* the state file another installer instance writes with its initialize
ForeignFiles ==
    {[exists |-> TRUE,
      json |-> [run_mode |-> m, current_stage |-> pre_marker, run_id |-> ForeignRunId,
                hosts |-> LET ids == ListOf(HostIds, 1)
                          IN  [i \in 1..Len(ids) |->
                                 [id |-> ids[i], stage |-> pre_marker, step |-> pre_marker,
                                  skip |-> FALSE, tags |-> dict("role", "master")]]]]
       : m \in RunModes}

\* at start-up: no state file, or the file of an earlier run with every host at _pre
FaultInitFiles ==
    {f \in InitFiles :
        exists(f) => /\ Len(f.json.hosts) = NumHosts
                     /\ f.json.current_stage = pre_marker
                     /\ \A i \in 1..Len(f.json.hosts) :
                           f.json.hosts[i].stage = pre_marker /\ ~f.json.hosts[i].skip}

FaultInit == StoreInit /\ file \in FaultInitFiles

\* hosts the configuration names a second time
Extras == {<<h>> : h \in HostIds}

\* the live InstallStatus loads the state file again
Load ==
    /\ alive
    /\ exists(file)
    /\ LET r == _load(self, file)
       IN  /\ self' = r.self
           /\ err' = r.err
    /\ op' = Call("_load")
    /\ ret' = <<>>
    /\ UNCHANGED <<file, alive, uuid_count, dvars, inst, bvars>>

\* another installer instance replaces the state file
Replace(f) ==
    /\ file # f
    /\ file' = f
    /\ op' = Call("replace")
    /\ err' = "ok"
    /\ ret' = <<>>
    /\ UNCHANGED <<self, alive, uuid_count, dvars, inst, bvars>>

\* the process calls checkpoint and crashes within it
CheckpointCrash(f) ==
    /\ alive
    /\ file' = f
    /\ alive' = FALSE
    /\ self' = NoStatus
    /\ op' = Call("crash")
    /\ err' = "ok"
    /\ ret' = <<>>
    /\ UNCHANGED <<uuid_count, dvars, inst, bvars>>

FaultNext ==
    \/ \E run_mode \in RunModes : Construct(run_mode)
    \/ Exit
    \/ \E role \in [HostIds -> {"master", "agent"}], extra \in {<<>>} \cup Extras :
          Initialize(role, extra)
    \/ \E host_id \in HostIds, stage \in StageArgs, step \in StepArgs :
          Update(host_id, stage, step)
    \/ \E host_id \in HostIds, skip_state \in BOOLEAN : MarkSkip(host_id, skip_state)
    \/ GetActiveNodes
    \/ Checkpoint
    \/ Load
    \/ \E f \in ForeignFiles : Replace(f)
    \/ \E f \in checkpoint_crash(self, file) : CheckpointCrash(f)

FaultSpec == FaultInit /\ [][FaultNext]_vars
---------------------------------------------------------------------------
(* Two installer processes, started while there is no state file, call      *)
(* initialize on the same path. A process can be preempted between the test *)
(* for the file and the write of the file.                                  *)

Instances == {1, 2}

NoRole == [h \in HostIds |-> "none"]

RaceInit ==
    /\ self = NoStatus
    /\ file = NoFile
    /\ alive = FALSE
    /\ op = NoOp
    /\ err = "ok"
    /\ ret = <<>>
    /\ uuid_count = 0
    /\ ssh_parallelism = 1
    /\ dispatcher = Dispatcher_init(ssh_parallelism, ProcessTimeout)
    /\ workers = <<>>
    /\ dispatch_err = None
    /\ cancelled = FALSE
    /\ inst \in [Instances -> {[pc |-> "ready", self |-> __init__(NoFile, m).self,
                                role |-> NoRole, err |-> "ok"] : m \in RunModes}]
    /\ call = NoCall
    /\ sh = NoScript

\* initialize up to the test for an existing state file
InitCheck(i, role) ==
    /\ inst[i].pc = "ready"
    /\ inst' = [inst EXCEPT ![i] =
                  IF initialize(inst[i].self, file, <<>>, <<>>, <<>>, None).err = "Exception"
                  THEN [@ EXCEPT !.pc = "done", !.err = "Exception"]
                  ELSE [@ EXCEPT !.pc = "checked", !.role = role]]
    /\ UNCHANGED <<svars, dvars, bvars>>

\* initialize after the test found no file: the hosts are registered and the
\* checkpoint writes the file, whatever the path holds by now
InitWrite(i) ==
    /\ inst[i].pc = "checked"
    /\ uuid_count < NumRunIds
    /\ LET role == inst[i].role
           master_list == ListOf({h \in HostIds : role[h] = "master"}, 1)
           agent_list == ListOf({h \in HostIds : role[h] = "agent"}, 1)
           r == initialize(inst[i].self, NoFile, master_list, agent_list, <<>>,
                           uuid4(uuid_count))
       IN  /\ inst' = [inst EXCEPT ![i] = [pc |-> "done", self |-> r.self,
                                           role |-> role, err |-> r.err]]
           /\ file' = IF r.err = "ok" THEN r.file ELSE file
           /\ uuid_count' = uuid_count + 1
    /\ UNCHANGED <<self, alive, op, err, ret, dvars, bvars>>

RaceNext ==
    \/ \E i \in Instances, role \in [HostIds -> {"master", "agent"}] : InitCheck(i, role)
    \/ \E i \in Instances : InitWrite(i)

RaceSpec == RaceInit /\ [][RaceNext]_vars
---------------------------------------------------------------------------
(* The dispatcher as a state machine: n hosts with a chain of ChainLen      *)
(* actions each are handed over; the workers are resumed in any order.     *)

DispatchInit ==
    /\ self = NoStatus
    /\ file = NoFile
    /\ alive = FALSE
    /\ op = NoOp
    /\ err = "ok"
    /\ ret = <<>>
    /\ uuid_count = 0
    /\ ssh_parallelism \in 1..MaxParallelism
    /\ dispatcher = Dispatcher_init(ssh_parallelism, ProcessTimeout)
    /\ \E n \in 0..NumChains : workers = [h \in 1..n |-> PendingWorker]
    /\ dispatch_err = None
    /\ cancelled = FALSE
    /\ inst = <<>>
    /\ call = NoCall
    /\ sh = NoScript

\* Dispatcher.dispatch is called
Dispatch ==
    /\ dispatch_err = None
    /\ dispatch_err' = dispatch
    /\ UNCHANGED <<ssh_parallelism, dispatcher, workers, cancelled, svars, inst, bvars>>

\* a free slot of the pool takes the next pending host and starts the first action
\* of its chain
StartChain(h) ==
    /\ workers[h].status = "pending"
    /\ Cardinality(Running) < dispatcher._paralleism
    /\ workers' = [workers EXCEPT ![h] = [@ EXCEPT !.status = "running", !.idx = 1,
                                                   !.pc = "launch", !.log = <<1>>]]
    /\ UNCHANGED <<ssh_parallelism, dispatcher, dispatch_err, cancelled, svars, inst, bvars>>

\* the event loop resumes the worker of h
WorkerStep(h, outcome) ==
    /\ workers[h].status = "running"
    /\ workers' = [workers EXCEPT ![h] = IF cancelled
                                         THEN dispatch_chain_cancelled(_run_cmd(dispatcher, @, outcome))
                                         ELSE dispatch_chain(_run_cmd(dispatcher, @, outcome))]
    /\ UNCHANGED <<ssh_parallelism, dispatcher, dispatch_err, cancelled, svars, inst, bvars>>

\* the caller cancels the dispatch: the hosts not started yet end with a
\* cancellation-kind outcome, the chains in flight go on to their next action boundary
Cancel ==
    /\ ~cancelled
    /\ workers # <<>>
    /\ cancelled' = TRUE
    /\ workers' = [h \in DOMAIN workers |->
                     IF workers[h].status = "pending"
                     THEN [workers[h] EXCEPT !.status = "cancelled"]
                     ELSE workers[h]]
    /\ UNCHANGED <<ssh_parallelism, dispatcher, dispatch_err, svars, inst, bvars>>

DispatchNext ==
    \/ Dispatch
    \/ Cancel
    \/ \E h \in DOMAIN workers : StartChain(h)
    \/ \E h \in DOMAIN workers, outcome \in LaunchOutcomes : WorkerStep(h, outcome)

DispatchSpec == DispatchInit /\ [][DispatchNext]_vars
---------------------------------------------------------------------------
(* The postflight diagnostic script on one host: the remote diagnostic       *)
(* reports healthy or not at each probe.                                    *)

DiagInit ==
    /\ self = NoStatus
    /\ file = NoFile
    /\ alive = FALSE
    /\ op = NoOp
    /\ err = "ok"
    /\ ret = <<>>
    /\ uuid_count = 0
    /\ ssh_parallelism = 1
    /\ dispatcher = Dispatcher_init(ssh_parallelism, ProcessTimeout)
    /\ workers = <<>>
    /\ dispatch_err = None
    /\ cancelled = FALSE
    /\ inst = <<>>
    /\ call = NoCall
    /\ sh = dcos_diag_script

DiagProbe(healthy) ==
    /\ sh.pc = "until"
    /\ sh' = until_test(sh, healthy)
    /\ UNCHANGED <<svars, dvars, inst, call>>

DiagSleep ==
    /\ sh.pc = "do"
    /\ sh' = until_body(sh)
    /\ UNCHANGED <<svars, dvars, inst, call>>

DiagExit ==
    /\ sh.pc = "done"
    /\ sh' = diag_exit(sh)
    /\ UNCHANGED <<svars, dvars, inst, call>>

DiagNext ==
    \/ \E healthy \in BOOLEAN : DiagProbe(healthy)
    \/ DiagSleep
    \/ DiagExit

DiagSpec == DiagInit /\ [][DiagNext]_vars

\* bash runs the script command by command, and the probe and the sleep return
DiagLiveSpec == DiagSpec /\ WF_vars(DiagNext)
---------------------------------------------------------------------------
(* The command path: the functions that turn an address, a stage and a node *)
(* into commands, and the captured stderr, each called with inputs of a     *)
(* bounded set. `call` holds the last call with its result.                 *)

\* the strings over an alphabet up to a length
Strs(alphabet, n) == UNION {[1..k -> alphabet] : k \in 0..n}

Addresses == Strs({"1", "2", ":"}, MaxAddrLen)
TagValues == {dict("role", "master"), dict("role", "slave"), set("role", "slave_public")}
BuildNodes == {Node(h, tg).node : h \in HostIds, tg \in {dict("role", "master"), dict("role", "slave")}}
StderrTexts == Strs({WarningPrefix[1], "e", "\r", "\n"}, MaxStderrLen)
RunArgs ==
    {<<>>, <<RoleArg>>, <<RoleArg, <<"--preflight-only">> >>, << <<"{", "role", "}">> >>,
     << <<"{", "zone", "}">> >>, << <<"-v">>, <<"{", "zone", "}">> >>}
GetCmdArguments ==
    [action : {"copy"}, arguments : {[filename |-> InstallScript]}]
    \cup [action : {"run"},
          arguments : [filename : {InstallScript}, args : RunArgs, parameterized : BOOLEAN]]
    \cup [action : {"run_external"}, arguments : {[cmd |-> << <<"sudo">>, <<"ls">> >>]}]
Manifests == {<<>>, << <<"p1">> >>, << <<"p1">>, <<"p2">> >>}

BuildInit ==
    /\ self = NoStatus
    /\ file = NoFile
    /\ alive = FALSE
    /\ op = NoOp
    /\ err = "ok"
    /\ ret = <<>>
    /\ uuid_count = 0
    /\ ssh_parallelism = 1
    /\ dispatcher = Dispatcher_init(ssh_parallelism, ProcessTimeout)
    /\ workers = <<>>
    /\ dispatch_err = None
    /\ cancelled = FALSE
    /\ inst = <<>>
    /\ call = NoCall
    /\ sh = NoScript

NodeCall(host, tags) ==
    /\ LET r == Node(host, tags)
       IN  call' = [name |-> "Node", host |-> host, tags |-> tags, err |-> r.err, node |-> r.node]
    /\ UNCHANGED <<svars, dvars, inst, sh>>

\* _run_cmd finalizes the stderr of a subprocess
RunCmdStderr(stderr) ==
    /\ call' = [name |-> "_run_cmd", stderr |-> stderr, captured |-> captured_stderr(stderr)]
    /\ UNCHANGED <<svars, dvars, inst, sh>>

GetCmd(node, action, arguments) ==
    /\ LET r == get_cmd(CommandBuilder, node, action, arguments)
       IN  call' = [name |-> "get_cmd", node |-> node, action |-> action,
                    arguments |-> arguments, err |-> r.err, argv |-> r.argv]
    /\ UNCHANGED <<svars, dvars, inst, sh>>

\* the chain of a stage is built and turned into the commands for a node
BuildStage(node, stage, packages) ==
    /\ LET c == build_chain(stage, <<>>, packages)
           r == IF c.err # "ok" THEN [err |-> c.err, cmds |-> <<>>]
                ELSE chain_cmds(CommandBuilder, node, c.chain)
       IN  call' = [name |-> "build_chain", node |-> node, stage |-> stage,
                    packages |-> packages, chain |-> c.chain, err |-> r.err, cmds |-> r.cmds]
    /\ UNCHANGED <<svars, dvars, inst, sh>>

\* the whole list of commands of a host for a stage: setup, actions, cleanup
HostChain(node, stage, packages) ==
    /\ LET c == build_chain(stage, <<>>, packages)
           r == IF c.err # "ok" THEN [err |-> c.err, cmds |-> <<>>]
                ELSE host_chain(CommandBuilder, node, c.chain)
       IN  call' = [name |-> "host_chain", node |-> node, stage |-> stage,
                    packages |-> packages, chain |-> c.chain, err |-> r.err, cmds |-> r.cmds]
    /\ UNCHANGED <<svars, dvars, inst, sh>>

\* the preflight stage of web_steps builds its chain
BuildWebPreflight(offline) ==
    /\ LET c == add_preflight_web(<<>>, offline)
       IN  call' = [name |-> "add_preflight_web", offline |-> offline, chain |-> c.chain,
                    err |-> c.err]
    /\ UNCHANGED <<svars, dvars, inst, sh>>

BuildNext ==
    \/ \E host \in Addresses, tags \in TagValues : NodeCall(host, tags)
    \/ \E stderr \in StderrTexts : RunCmdStderr(stderr)
    \/ \E node \in BuildNodes, a \in GetCmdArguments : GetCmd(node, a.action, a.arguments)
    \/ \E node \in BuildNodes, i \in 1..Len(cli_steps), packages \in Manifests :
          BuildStage(node, cli_steps[i].name, packages)
    \/ \E node \in BuildNodes, i \in 1..Len(cli_steps), packages \in Manifests :
          HostChain(node, cli_steps[i].name, packages)
    \/ \E offline \in BOOLEAN : BuildWebPreflight(offline)

BuildSpec == BuildInit /\ [][BuildNext]_vars
---------------------------------------------------------------------------
(* The install script dcos_install.py on a host, and the roles the          *)
(* orchestrator hands to it. `call` holds the last call with its result.    *)

\* hack.py get_full_nodes_list: config gives each host its list, "none" for a host in
\* no list; the nodes of master_list, agent_list, public_agent_list in this order
get_full_nodes_list(config) ==
    LET add_nodes(nodes, tag) == [i \in 1..Len(nodes) |-> Node(nodes[i], tag).node]
    IN  add_nodes(ListOf({h \in HostIds : config[h] = "master"}, 1), dict("role", "master"))
        \o add_nodes(ListOf({h \in HostIds : config[h] = "agent"}, 1), dict("role", "agent"))
        \o add_nodes(ListOf({h \in HostIds : config[h] = "public"}, 1),
                     dict("role", "public_agent"))

roles_all == {"slave", "slave_public", "master"}

\* check_role: None for a role of roles_all; for another role the message is formatted
\* with positional arguments for its fields {role} and {all_roles}
check_role(role) ==
    IF role \in roles_all THEN [err |-> "ok", result |-> None]
    ELSE [err |-> "KeyError", result |-> None]

\* print_color: colors is a list of names and is indexed with each of its names
print_color(colors) ==
    IF colors = <<>> THEN [err |-> "ok"] ELSE [err |-> "TypeError"]

\* the number of parameters of do_preflight (role, show_all, output_file) and of
\* do_install (role, no_block)
do_preflight_params == 3
do_install_params == 2

\* do_preflight and do_install begin with print_section; steps are the steps done
do_preflight(role, show_all, output_file) ==
    IF print_color(<<"bold">>).err # "ok"
    THEN [err |-> print_color(<<"bold">>).err, steps |-> <<>>]
    ELSE [err |-> "NotImplementedError", steps |-> <<"preflight">>]

do_install(role, no_block) ==
    IF print_color(<<"bold">>).err # "ok"
    THEN [err |-> print_color(<<"bold">>).err, steps |-> <<>>]
    ELSE [err |-> "ok", steps |-> <<"install">>]

\* main: the exit status of the script and the steps it has done. An exception that
\* nothing catches ends the script with status 1.
main(args) ==
    LET raised(e, steps) == [exit |-> 1, err |-> e, steps |-> steps]
        call_preflight == IF Len(<<args.role>>) # do_preflight_params
                          THEN [err |-> "TypeError", steps |-> <<>>]
                          ELSE do_preflight(args.role, FALSE, None)
        call_install == IF Len(<<>>) # do_install_params
                        THEN [err |-> "TypeError", steps |-> <<>>]
                        ELSE do_install(args.role, args.no_block)
    IN  IF args.disable_preflight /\ args.preflight_only
        THEN [exit |-> 2, err |-> "SystemExit", steps |-> <<>>]
        ELSE IF args.euid # 0
        THEN IF print_color(<<"bold", "red">>).err # "ok"
             THEN raised(print_color(<<"bold", "red">>).err, <<>>)
             ELSE [exit |-> 1, err |-> "SystemExit", steps |-> <<>>]
        ELSE IF args.preflight_only
        THEN IF call_preflight.err # "ok" THEN raised(call_preflight.err, call_preflight.steps)
             ELSE [exit |-> 0, err |-> "SystemExit", steps |-> call_preflight.steps]
        ELSE IF ~args.disable_preflight /\ call_preflight.err # "ok"
        THEN raised(call_preflight.err, call_preflight.steps)
        ELSE LET before == IF args.disable_preflight THEN <<>> ELSE call_preflight.steps
             IN  IF call_install.err # "ok"
                 THEN raised(call_install.err, before \o call_install.steps)
                 ELSE [exit |-> 0, err |-> "ok", steps |-> before \o call_install.steps]

\* CheckBlock.has_failed over self.results, the `passed` of each recorded result
has_failed(results) == \E i \in 1..Len(results) : results[i]

\* CheckBlock.log_result begins with self.collector.log_result(), and the collector of
\* a block, a CheckCollector, has no log_result
log_result(results, result) == [err |-> "AttributeError", results |-> results]

\* the number of positional parameters of fail and of success: msg
check_result_params == 1

\* check_preexisting_dcos run to its end as do_preflight's list(result) does; existing
\* are the paths that exist on the host. It calls success and fail with msg and file.
check_preexisting_dcos(existing) ==
    LET dcos_installed_files ==
            <<"/etc/systemd/system/dcos.target", "/etc/systemd/system/dcos.target.wants",
              "/opt/mesosphere", "/var/lib/dcos", "/run/dcos">>
        RECURSIVE run(_)
        run(i) ==
            IF i > Len(dcos_installed_files) THEN [err |-> "ok", results |-> <<>>]
            ELSE IF Len(<<"msg", "file">>) # check_result_params
            THEN [err |-> "TypeError", results |-> <<>>]
            ELSE LET r == run(i + 1)
                 IN  [err |-> r.err,
                      results |-> << [passed |-> dcos_installed_files[i] \in existing,
                                      file |-> dcos_installed_files[i]] >> \o r.results]
    IN  [files |-> dcos_installed_files] @@ run(1)

ScriptInit ==
    /\ self = NoStatus
    /\ file = NoFile
    /\ alive = FALSE
    /\ op = NoOp
    /\ err = "ok"
    /\ ret = <<>>
    /\ uuid_count = 0
    /\ ssh_parallelism = 1
    /\ dispatcher = Dispatcher_init(ssh_parallelism, ProcessTimeout)
    /\ workers = <<>>
    /\ dispatch_err = None
    /\ cancelled = FALSE
    /\ inst = <<>>
    /\ call = NoCall
    /\ sh = NoScript

FullNodesList(config) ==
    /\ call' = [name |-> "get_full_nodes_list", config |-> config,
                nodes |-> get_full_nodes_list(config)]
    /\ UNCHANGED <<svars, dvars, inst, sh>>

Main(args) ==
    /\ LET r == main(args)
       IN  call' = [name |-> "main", args |-> args, exit |-> r.exit, err |-> r.err,
                    steps |-> r.steps]
    /\ UNCHANGED <<svars, dvars, inst, sh>>

\* a block with the given results recorded is asked whether it has failed
HasFailed(results) ==
    /\ call' = [name |-> "has_failed", results |-> results, ret |-> has_failed(results)]
    /\ UNCHANGED <<svars, dvars, inst, sh>>

LogResult(results, result) ==
    /\ LET r == log_result(results, result)
       IN  call' = [name |-> "log_result", results |-> results, result |-> result,
                    err |-> r.err, after |-> r.results]
    /\ UNCHANGED <<svars, dvars, inst, sh>>

CheckPreexisting(existing) ==
    /\ LET r == check_preexisting_dcos(existing)
       IN  call' = [name |-> "check_preexisting_dcos", existing |-> existing,
                    files |-> r.files, err |-> r.err, results |-> r.results]
    /\ UNCHANGED <<svars, dvars, inst, sh>>

ScriptNext ==
    \/ \E config \in [HostIds -> Roles] : FullNodesList(config)
    \/ \E args \in [role : roles_all \cup {"agent"}, disable_preflight : BOOLEAN,
                     preflight_only : BOOLEAN, no_block : BOOLEAN, euid : {0, 1000}] :
          Main(args)
    \/ \E results \in Strs(BOOLEAN, MaxResults) : HasFailed(results)
    \/ \E results \in Strs(BOOLEAN, MaxResults), result \in BOOLEAN : LogResult(results, result)
    \/ \E existing \in SUBSET {"/etc/systemd/system/dcos.target", "/opt/mesosphere",
                               "/var/lib/dcos", "/run/dcos"} : CheckPreexisting(existing)

ScriptSpec == ScriptInit /\ [][ScriptNext]_vars
---------------------------------------------------------------------------
(* Properties of the install state store (specification Spec) *)

Elems(seq) == {seq[i] : i \in 1..Len(seq)}

\* the three lists of an initialize call are duplicate-free and pairwise disjoint
ValidLists(o) ==
    Len(o.master_list) + Len(o.agent_list) + Len(o.agent_public_list)
        = Cardinality(Elems(o.master_list) \cup Elems(o.agent_list) \cup Elems(o.agent_public_list))

ListedHosts(o) == Elems(o.master_list) \cup Elems(o.agent_list) \cup Elems(o.agent_public_list)

\* C1: initialize with duplicate-free, pairwise disjoint host lists (a non-empty
\* public-agent list included) on a new InstallStatus, then checkpoint, then the
\* load of the file by a new InstallStatus of the same run mode, gives back the same
\* record: run_mode, run_id, current_stage, the listed hosts, and per host the same
\* stage, step, skip and tags.
RoundTrips(s, f, o) ==
    /\ DOMAIN s.hosts = ListedHosts(o)
    /\ LET c == checkpoint(s, f)
           l == __init__(c.file, s.run_mode)
       IN  /\ c.err = "ok"
           /\ l.err = "ok"
           /\ l.self.run_mode = s.run_mode
           /\ l.self.run_id = s.run_id
           /\ l.self.current_stage = s.current_stage
           /\ DOMAIN l.self.hosts = DOMAIN s.hosts
           /\ \A h \in DOMAIN s.hosts :
                 /\ l.self.hosts[h].stage = s.hosts[h].stage
                 /\ l.self.hosts[h].step = s.hosts[h].step
                 /\ l.self.hosts[h].skip = s.hosts[h].skip
                 /\ l.self.hosts[h].tags = s.hosts[h].tags

C1_RoundTrip ==
    [][(op'.name = "initialize" /\ ValidLists(op') /\ ~exists(file) /\ DOMAIN self.hosts = {})
          => (err' = "ok" /\ RoundTrips(self', file', op'))]_vars

\* C2: initialize called while the state file exists fails, and leaves the file and
\* the in-memory record (hosts, current_stage, run_id) as they were.
C2_InitializeOnExistingFails ==
    [][(op'.name = "initialize" /\ exists(file))
          => (err' = "Exception" /\ file' = file /\ self' = self)]_vars

C2_Witness ==
    /\ op.name = "initialize"
    /\ err = "Exception"
    /\ exists(file)
    /\ DOMAIN self.hosts # {}
    /\ op.master_list # <<>>

\* C3: the skip flag of a host changes only in a mark_skip call for that host made
\* while the host's stage equals current_stage; a mark_skip call that asks for another
\* flag value for a host whose stage differs from current_stage fails and leaves every
\* host's state unchanged.
C3_SkipOnlyInCurrentStage ==
    [][/\ \A h \in DOMAIN self.hosts \cap DOMAIN self'.hosts :
             self'.hosts[h].skip # self.hosts[h].skip
                => /\ op'.name = "mark_skip"
                   /\ op'.host_id = h
                   /\ self.hosts[h].stage = self.current_stage
       /\ (/\ op'.name = "mark_skip"
           /\ op'.host_id \in DOMAIN self.hosts
           /\ self.hosts[op'.host_id].skip # op'.skip_state
           /\ self.hosts[op'.host_id].stage # self.current_stage)
          => (err' = "Exception" /\ self'.hosts = self.hosts)]_vars

C3_Witness ==
    /\ op.name = "mark_skip"
    /\ err = "Exception"
    /\ op.host_id \in DOMAIN self.hosts
    /\ self.hosts[op.host_id].stage # self.current_stage
    /\ self.hosts[op.host_id].skip # op.skip_state

\* C4: mark_skip(host_id, skip_state) for a known host whose stage equals
\* current_stage and whose skip flag differs from skip_state completes without error
\* and sets that host's skip flag to skip_state, changing nothing else.
C4_MarkSkipSetsFlag ==
    [][(/\ op'.name = "mark_skip"
        /\ op'.host_id \in DOMAIN self.hosts
        /\ self.hosts[op'.host_id].stage = self.current_stage
        /\ self.hosts[op'.host_id].skip # op'.skip_state)
          => /\ err' = "ok"
             /\ self' = [self EXCEPT !.hosts[op'.host_id].skip = op'.skip_state]]_vars

\* C5: update(host_id, stage, step) for a known host completes without error and
\* sets that host's stage and step to the given values, changing nothing else.
C5_UpdateSetsStageAndStep ==
    [][(op'.name = "update" /\ op'.host_id \in DOMAIN self.hosts)
          => /\ err' = "ok"
             /\ self' = [self EXCEPT !.hosts[op'.host_id].stage = op'.stage,
                                     !.hosts[op'.host_id].step = op'.step]]_vars

\* C6: get_active_nodes returns exactly the nodes of the hosts that are not skipped.
C6_ActiveIsNotSkipped ==
    op.name = "get_active_nodes"
    => /\ Elems(ret) = {self.hosts[h].node : h \in {x \in DOMAIN self.hosts : ~self.hosts[x].skip}}
       /\ Len(ret) = Cardinality({x \in DOMAIN self.hosts : ~self.hosts[x].skip})

\* C14: the position recorded for a host by update (the stage and step it failed at
\* or completed) is the position a resumed run finds: after update for a known host,
\* the checkpoint of the record and its load by a new process of the same run mode give
\* that host at the recorded stage and step and every other host where it was.
C14_RecordedPositionSurvivesResume ==
    [][(op'.name = "update" /\ op'.host_id \in DOMAIN self.hosts)
          => LET c == checkpoint(self', file')
                 l == __init__(c.file, self'.run_mode)
             IN  /\ err' = "ok"
                 /\ c.err = "ok"
                 /\ l.err = "ok"
                 /\ l.self.hosts[op'.host_id].stage = op'.stage
                 /\ l.self.hosts[op'.host_id].step = op'.step
                 /\ \A h \in DOMAIN self.hosts \ {op'.host_id} :
                       /\ l.self.hosts[h].stage = self.hosts[h].stage
                       /\ l.self.hosts[h].step = self.hosts[h].step]_vars

\* C18: the run mode recorded in the state file for a run_id never changes, and the
\* construction of an InstallStatus with a run mode other than the one in the existing
\* state file fails, loads no host state and leaves the file as it was.
C18_RunModeFixed ==
    [][/\ (exists(file) /\ exists(file') /\ file'.json.run_id = file.json.run_id)
          => file'.json.run_mode = file.json.run_mode
       /\ (op'.name = "__init__" /\ exists(file) /\ file.json.run_mode # op'.run_mode)
          => (err' = "Exception" /\ ~alive' /\ self' = NoStatus /\ file' = file)]_vars

C18_Witness ==
    /\ op.name = "__init__"
    /\ err = "Exception"
    /\ exists(file)
    /\ file.json.run_mode # op.run_mode
    /\ file.json.hosts # <<>>
    /\ ~alive

\* C20: mark_skip with the flag value the host already has returns without error and
\* changes nothing, also when the host's stage differs from current_stage; the same
\* mark_skip applied a second time leaves the state the first one left.
C20_MarkSkipIdempotent ==
    [][(op'.name = "mark_skip" /\ op'.host_id \in DOMAIN self.hosts)
          => /\ self.hosts[op'.host_id].skip = op'.skip_state
                => (err' = "ok" /\ self' = self /\ file' = file)
             /\ mark_skip(self', op'.host_id, op'.skip_state) = [self |-> self', err |-> err']]_vars

C20_Witness ==
    /\ op.name = "mark_skip"
    /\ err = "ok"
    /\ op.host_id \in DOMAIN self.hosts
    /\ self.hosts[op.host_id].skip = op.skip_state
    /\ op.skip_state
    /\ self.hosts[op.host_id].stage # self.current_stage

\* the stage sequence of a run mode: initial marker, the stages of its pipeline,
\* terminal marker
StageSequence(mode) ==
    <<pre_marker>> \o [i \in 1..Len(run_mode_dict[mode]) |-> run_mode_dict[mode][i].name]
                  \o <<post_marker>>

InSequence(mode, stage) == \E i \in 1..Len(StageSequence(mode)) : StageSequence(mode)[i] = stage
Rank(mode, stage) == CHOOSE i \in 1..Len(StageSequence(mode)) : StageSequence(mode)[i] = stage

StageNameSeq(steps) == [i \in 1..Len(steps) |-> steps[i].name]
StageOptionalSeq(steps) == [i \in 1..Len(steps) |-> steps[i].optional]
NoStageTwice(steps) ==
    \A i, j \in 1..Len(steps) : steps[i].name = steps[j].name => i = j

\* C23 (as stated): the pipeline of either run mode is prerequisites (optional),
\* preflight, install, postflight in that order, the last three mandatory, and names no
\* stage twice.
C23_FourStagesInBothModes ==
    alive
    => LET steps == run_mode_dict[self.run_mode]
       IN  /\ StageNameSeq(steps) = <<"prerequisites", "preflight", "install", "postflight">>
           /\ StageOptionalSeq(steps) = <<TRUE, FALSE, FALSE, FALSE>>
           /\ NoStageTwice(steps)

\* C23 (amended): the web pipeline is preflight, install, postflight, all mandatory,
\* with no prerequisites stage; the cli pipeline is prerequisites (optional), preflight,
\* install, postflight; neither names a stage twice.
C23_PipelineStages ==
    alive
    => LET steps == run_mode_dict[self.run_mode]
       IN  /\ self.run_mode = "web"
              => /\ StageNameSeq(steps) = <<"preflight", "install", "postflight">>
                 /\ StageOptionalSeq(steps) = <<FALSE, FALSE, FALSE>>
           /\ self.run_mode = "cli"
              => /\ StageNameSeq(steps) = <<"prerequisites", "preflight", "install", "postflight">>
                 /\ StageOptionalSeq(steps) = <<TRUE, FALSE, FALSE, FALSE>>
           /\ NoStageTwice(steps)

C23_Witness ==
    /\ alive
    /\ self.run_mode = "web"
    /\ self.current_stage = "preflight"
    /\ DOMAIN self.hosts # {}

---------------------------------------------------------------------------
(* Properties of the install state store in its environment (specification *)
(* FaultSpec)                                                               *)

C17_ForeignRunIdRejected ==
    [][(op'.name = "_load" /\ self.run_id # None /\ file.json.run_id # self.run_id)
          => (err' = "Exception" /\ self' = self)]_vars

C17_Witness ==
    /\ op.name = "_load"
    /\ err = "Exception"
    /\ self.run_id # None
    /\ file.json.run_id = ForeignRunId
    /\ file.json.run_mode = self.run_mode
    /\ \E i \in 1..Len(file.json.hosts) :
          /\ file.json.hosts[i].id \in DOMAIN self.hosts
          /\ file.json.hosts[i].tags # self.hosts[file.json.hosts[i].id].tags

\* C19: initialize with a host identifier that occurs more than once in its lists
\* fails and is not applied in part: the state file is not written and the in-memory
\* hosts are those registered before the call.
C19_InitializeAllOrNothing ==
    [][(op'.name = "initialize" /\ ~ValidLists(op') /\ ~exists(file))
          => (err' # "ok" /\ file' = file /\ self'.hosts = self.hosts)]_vars

---------------------------------------------------------------------------
(* Properties of concurrent installer processes (specification RaceSpec) *)

\* C16: of two installer processes that call initialize on the same state file path
\* at the same time, at most one succeeds, and the state file carries the run_id and
\* the hosts of the one that succeeded.
C16_AtMostOneInitializes ==
    LET won == {i \in DOMAIN inst : inst[i].pc = "done" /\ inst[i].err = "ok"}
    IN  /\ Cardinality(won) <= 1
        /\ \A i \in won :
              /\ exists(file)
              /\ file.json.run_id = inst[i].self.run_id
              /\ file.json.hosts = checkpoint_json(inst[i].self).hosts

---------------------------------------------------------------------------
(* Properties of the dispatcher (specification DispatchSpec) *)

Last(seq) == seq[Len(seq)]

C8_TimeoutYieldsResult ==
    \A h \in DOMAIN workers :
        (workers[h].status = "done" /\ workers[h].fate = "hang")
        => /\ workers[h].proc = "terminated"
           /\ workers[h].results # <<>>
           /\ Last(workers[h].results) = [idx |-> workers[h].idx, returncode |-> NoReturnCode]
           /\ \A g \in DOMAIN workers \ {h} :
                 (workers[g].status = "done" /\ workers[g].fate \in {"exit0", "exit1"})
                    => workers[g].results # <<>>

\* C9: every host handed to dispatch ends with a terminal result, whether its commands
\* exit with 0, exit non-zero, raise or time out: once no host is pending or running,
\* the last result delivered for each host is the result of the action its chain ended with.
C9_EveryHostGetsResult ==
    (\A h \in DOMAIN workers : workers[h].status = "done")
    => \A h \in DOMAIN workers :
          /\ Len(workers[h].results) >= 1
          /\ Last(workers[h].results).idx = workers[h].idx

C11_TimeoutEndsOnlyItsChain ==
    [][\A h \in DOMAIN workers :
          workers[h].fate = "hang"
          => /\ workers'[h].log = workers[h].log
             /\ \A g \in DOMAIN workers \ {h} :
                   workers'[g].status = "done" => workers'[g].results # <<>>]_vars

\* a host of the dispatch has its terminal outcome: a result of its last action, or
\* the cancellation
Resolved(h) ==
    \/ workers[h].status = "cancelled"
    \/ workers[h].status = "done" /\ workers[h].results # <<>>

\* C12: after the cancellation of a dispatch no chain of a host is started, and every
\* host of the dispatch ends with a terminal outcome (a result or the cancellation):
\* once no chain is running, no host is left unresolved.
C12_CancelResolvesEveryHost ==
    [][cancelled
          => /\ \A h \in DOMAIN workers : workers[h].log = <<>> => workers'[h].log = <<>>
             /\ (Running' = {}) => \A h \in DOMAIN workers : Resolved(h)']_vars

---------------------------------------------------------------------------
(* Properties of the postflight diagnostic script (specification DiagSpec) *)

\* C22: the diagnostic script exits with status 0 if and only if one of its probes
\* found the remote diagnostic healthy, whatever the number of failed probes before
\* the first healthy one, up to the last probe the ceiling allows.
C22_ExitZeroIffHealthy ==
    sh.pc = "exit" => (sh.RETCODE = 0 <=> sh.succeeded)

---------------------------------------------------------------------------
(* Properties of the command path (specification BuildSpec) *)

Colons(s) == Cardinality({i \in 1..Len(s) : s[i] = ":"})
ColonAt(s) == CHOOSE i \in 1..Len(s) : s[i] = ":"

\* the number a decimal numeral denotes
RECURSIVE Numeral(_, _)
Numeral(d, acc) == IF d = <<>> THEN acc ELSE Numeral(Tail(d), 10 * acc + DigitVal(Head(d)))

\* C24: Node(host, tags) with a dict of tags gives, for an address without a colon,
\* that address and no port; for an address with one colon and a numeral after it, the
\* part before the colon and the number after it; an address with more than one colon
\* is rejected with a ValueError.
C24_ParseAddress ==
    (call.name = "Node" /\ call.tags.kind = "dict")
    => LET s == call.host
       IN  /\ Colons(s) = 0
              => (call.err = "ok" /\ call.node.ip = s /\ call.node.port = NoPort)
           /\ (Colons(s) = 1 /\ ColonAt(s) < Len(s))
              => /\ call.err = "ok"
                 /\ call.node.ip = SubSeq(s, 1, ColonAt(s) - 1)
                 /\ call.node.port = Numeral(SubSeq(s, ColonAt(s) + 1, Len(s)), 0)
           /\ Colons(s) > 1 => call.err = "ValueError"

C24_Witness ==
    /\ call.name = "Node"
    /\ call.host = <<"1", ":", "2">>
    /\ call.err = "ok"
    /\ call.node.ip = <<"1">>
    /\ call.node.port = 2

\* C25: the captured stderr is the sequence of the lines of the subprocess's stderr
\* without the lines that begin with 'Warning: Permanently added'; the other lines are
\* kept as they are and in their order.
C25_StderrLinesKept ==
    call.name = "_run_cmd"
    => call.captured = SelectSeq(Split(call.stderr, "\n"),
                                 LAMBDA line : ~startswith(line, WarningPrefix))

\* C26: in the commands of the preflight stage and of the install stage the role
\* argument of the install script is the value of the node's role tag, and the
\* placeholder does not occur in them.
C26_RoleReachesCommand ==
    (call.name = "build_chain" /\ call.stage \in {"preflight", "install"})
    => /\ call.err = "ok"
       /\ \E k \in 1..Len(call.cmds) :
             \E i \in 1..Len(call.cmds[k]) :
                call.cmds[k][i] = <<GetItem(call.node.tags, "role")>>
       /\ \A k \in 1..Len(call.cmds) :
             \A i \in 1..Len(call.cmds[k]) : call.cmds[k][i] # <<"{", "role", "}">>

\* an argument template has the field {name}
References(arg, name) ==
    \E j \in 1..Len(arg) :
       /\ j + 2 <= Len(arg)
       /\ arg[j] = "{" /\ arg[j + 1] = name /\ arg[j + 2] = "}"
       /\ (j > 1 => arg[j - 1] # "{")

\* C27: get_cmd for a parameterized run action with an argument that has a field for
\* a tag the node does not have fails and gives no argv.
C27_MissingTagFails ==
    (/\ call.name = "get_cmd"
     /\ call.action = "run"
     /\ call.arguments.parameterized
     /\ \E i \in 1..Len(call.arguments.args) :
           \E name \in {"role", "zone"} :
              References(call.arguments.args[i], name) /\ ~HasKey(call.node.tags, name))
    => (call.err = "KeyError" /\ call.argv = <<>>)

C27_Witness ==
    /\ call.name = "get_cmd"
    /\ call.action = "run"
    /\ call.arguments.parameterized
    /\ call.arguments.args = << <<"-v">>, <<"{", "zone", "}">> >>
    /\ call.err = "KeyError"

\* C28: get_cmd for a run_external action gives, without error, the ssh wrapper
\* followed by the given argv as it is, and so the setup and cleanup commands of the
\* work directory are built without error.
C28_RunExternalBuilt ==
    (call.name = "get_cmd" /\ call.action = "run_external")
    => /\ call.err = "ok"
       /\ call.argv = << <<"ssh">> >> \o base_args(CommandBuilder)
                         \o << CommandBuilder.default_user \o <<"@">> \o call.node.ip >>
                         \o call.arguments.cmd
       /\ yield_setup(CommandBuilder, call.node).err = "ok"
       /\ make_cleanup(CommandBuilder, call.node).err = "ok"

\* a command has the word w
HasWord(cmd, w) == \E i \in 1..Len(cmd) : cmd[i] = <<w>>

\* C29: the commands of a host for the preflight chain begin with the mkdir and the
\* chown of the work directory, end with its removal, and have every copy and run of
\* the chain in between.
C29_WorkDirAroundChain ==
    (call.name = "host_chain" /\ call.stage = "preflight")
    => /\ call.err = "ok"
       /\ Len(call.cmds) = Len(call.chain) + 3
       /\ HasWord(call.cmds[1], "mkdir")
       /\ HasWord(call.cmds[2], "chown")
       /\ HasWord(call.cmds[Len(call.cmds)], "rm")
       /\ \A k \in 3..(Len(call.cmds) - 1) :
             call.cmds[k][1] \in {<<"scp">>, <<"ssh">>} /\ ~HasWord(call.cmds[k], "rm")

\* C30: the chain of the install stage has a copy of the bootstrap artifact, a copy of
\* the install script and a copy for each package of the manifest, each before the
\* first action that runs the install script.
C30_InstallCopiesBeforeRun ==
    (call.name = "build_chain" /\ call.stage = "install")
    => LET chain == call.chain
           runs == {i \in 1..Len(chain) :
                      chain[i].action = "run" /\ chain[i].filename = InstallScript}
           CopiedBeforeRun(w) ==
               \E i \in 1..Len(chain) :
                  /\ chain[i].action = "copy"
                  /\ \E j \in 1..Len(chain[i].filename) : chain[i].filename[j] = w
                  /\ \A r \in runs : i < r
       IN  /\ call.err = "ok"
           /\ runs # {}
           /\ CopiedBeforeRun(".bootstrap.tar.xz")
           /\ CopiedBeforeRun(InstallScript[1])
           /\ \A p \in 1..Len(call.packages) : CopiedBeforeRun(call.packages[p][1])

\* C31: add_preflight_web ends without error for both values of options.offline: with
\* offline it appends the preflight actions only, without it the prerequisite actions
\* and then the preflight actions.
C31_PreflightWebBuilds ==
    call.name = "add_preflight_web"
    => /\ call.err = "ok"
       /\ call.chain = IF call.offline THEN add_preflight(<<>>).chain
                       ELSE add_preflight(add_prerequisites(<<>>).chain).chain

\* the port a node is to be reached at
TargetPort(node) == IF node.port = NoPort THEN CommandBuilder.default_port ELSE node.port

\* C33: the copy command of a node has the port option of the node's own port when the
\* node has one and of the default port of the CommandBuilder when it has none.
C33_CopyPort ==
    (call.name = "get_cmd" /\ call.action = "copy")
    => /\ call.err = "ok"
       /\ call.argv[1] = <<"scp">>
       /\ {i \in 1..Len(call.argv) : Len(call.argv[i]) > 0 /\ call.argv[i][1] = "-P"} = {3}
       /\ call.argv[3] = <<"-P">> \o str(TargetPort(call.node))

C33_Witness ==
    /\ call.name = "get_cmd"
    /\ call.action = "copy"
    /\ call.node.port = NoPort
    /\ call.argv[3] = <<"-P", "2", "2">>

\* the port an ssh command connects to: that of its -p option, and the port 22 of ssh
\* without one
SshPort(argv) ==
    IF \E i \in 1..Len(argv) : Len(argv[i]) > 0 /\ argv[i][1] = "-p"
    THEN LET i == CHOOSE i \in 1..Len(argv) : Len(argv[i]) > 0 /\ argv[i][1] = "-p"
         IN  IF Len(argv[i]) > 1 THEN Tail(argv[i]) ELSE argv[i + 1]
    ELSE <<"2", "2">>

\* C34: a run or run_external command of a node connects to the port the copy command
\* of the node is addressed to: the node's own port, or the default port without one.
\* (Stated for the runs that are not parameterized, which no template can make fail.)
C34_RunPort ==
    (call.name = "get_cmd" /\ call.action \in {"run", "run_external"}
       /\ (call.action = "run" => ~call.arguments.parameterized))
    => /\ call.err = "ok"
       /\ SshPort(call.argv) = str(TargetPort(call.node))

\* C35: the chain of the install stage is built and has exactly one action that runs
\* the install script.
C35_InstallRunsOnce ==
    (call.name = "build_chain" /\ call.stage = "install")
    => /\ call.err = "ok"
       /\ Cardinality({i \in 1..Len(call.chain) :
                          /\ call.chain[i].action = "run"
                          /\ call.chain[i].filename = InstallScript}) = 1

---------------------------------------------------------------------------
(* Properties of the diagnostic script (specification DiagLiveSpec) *)

\* C32: whatever the probes report, the script makes at most DiagCeiling + 1 probes,
\* makes no probe after a successful one, and reaches its exit.
C32_DiagTerminates ==
    /\ [](sh.probes <= DiagCeiling + 1)
    /\ [][sh.succeeded => sh'.probes = sh.probes]_vars
    /\ <>(sh.pc = "exit")

C32_Witness == sh.pc = "exit" /\ sh.probes = DiagCeiling + 1 /\ ~sh.succeeded

---------------------------------------------------------------------------
(* Properties of the install script and of the roles (specification ScriptSpec) *)

\* C36: every role that get_full_nodes_list gives to a node is a role that check_role
\* of the install script accepts.
C36_RolesAccepted ==
    call.name = "get_full_nodes_list"
    => \A i \in 1..Len(call.nodes) :
          LET c == check_role(GetItem(call.nodes[i].tags, "role"))
          IN  c.err = "ok" /\ c.result = None

Before(steps, a, b) ==
    \A j \in 1..Len(steps) : steps[j] = b => \E i \in 1..(j - 1) : steps[i] = a

\* C37: main, for the flags argparse accepts: not run as root it exits with failure
\* and does no step; as root with --preflight-only it does the preflight and not the
\* install; with --disable-preflight it does the install and not the preflight; with
\* neither flag the preflight is done before the install.
C37_MainOrder ==
    (call.name = "main" /\ ~(call.args.disable_preflight /\ call.args.preflight_only))
    => LET did(s) == \E i \in 1..Len(call.steps) : call.steps[i] = s
       IN  /\ call.args.euid # 0 => (call.exit # 0 /\ call.steps = <<>>)
           /\ (call.args.euid = 0 /\ call.args.preflight_only)
              => (did("preflight") /\ ~did("install"))
           /\ (call.args.euid = 0 /\ call.args.disable_preflight)
              => (did("install") /\ ~did("preflight"))
           /\ (call.args.euid = 0 /\ ~call.args.preflight_only
                 /\ ~call.args.disable_preflight)
              => Before(call.steps, "preflight", "install")

\* C38: has_failed is true exactly when a result recorded in the block did not pass; a
\* block whose results all passed, or that has none, has not failed.
C38_FailedIffSomeResultFailed ==
    call.name = "has_failed"
    => (call.ret <=> \E i \in 1..Len(call.results) : ~call.results[i])

\* C39: check_preexisting_dcos gives a result for each path of its list, a failing one
\* for a path that exists on the host and a passing one for a path that does not.
C39_PreexistingPathsFail ==
    call.name = "check_preexisting_dcos"
    => /\ call.err = "ok"
       /\ Len(call.results) = Len(call.files)
       /\ \A i \in 1..Len(call.results) :
             /\ call.results[i].file = call.files[i]
             /\ call.results[i].passed <=> call.files[i] \notin call.existing

=============================================================================
